---- MODULE Spec2Model ----
(***************************************************************************)
(* girder/utility/acl_mixin.py: AccessControlMixin.                        *)
(*                                                                         *)
(* A resource type that carries no access list of its own resolves access  *)
(* through a parent document.  The model instantiates the mixin the way    *)
(* the Item model does (resourceColl = folder, resourceParent = folderId)  *)
(* and keeps the parent collection and the resource collection as state.   *)
(* The mixin only reads the two collections, so no action changes them,    *)
(* and a behaviour is one request: one call of the interface and, when the *)
(* call returns a generator, the steps of that generator.                  *)
(*                                                                         *)
(* Python values are represented as follows: a document is a function from  *)
(* field names to values, so "key in doc" is membership in DOMAIN doc;     *)
(* None is NoUser / NoLevel / NoSort / NoFields / NoVersion according to   *)
(* the parameter; the result of a load is <<>> (None) or <<doc>>.          *)
(***************************************************************************)
EXTENDS Integers, Sequences, FiniteSets, TLC

VARIABLES parents, docs, env, pass, call

vars == <<parents, docs, env, pass, call>>

-----------------------------------------------------------------------------
(* Bounds of the model.                                                    *)

MaxLen == 3

MaxWin == 2

MaxDocs == 2

-----------------------------------------------------------------------------
(* Constants of the program.                                               *)

READ == 0

WRITE == 1

ADMIN == 2

SITE_ADMIN == 100

\* Set in girder.constants; the model takes a threshold that collections of
\* MaxDocs documents reach, so that counts fall on both sides of it.
TEXT_SCORE_SORT_MAX == 2

NoLevel == -1

NoGrant == -1

NoUser == "None"

NoSort == "None"

NoFields == {"*"}

NoVersion == <<>>

resourceColl == "folder"

resourceParent == "folderId"

Levels == {READ, WRITE, ADMIN}

Users == {"u1", "adm"}

UserOrNone == Users \cup {NoUser}

isAdmin(user) == user = "adm"

Flags == {"f"}

ParentIds == {"p1", "p2"}

EmptyMap == [x \in {} |-> TRUE]

-----------------------------------------------------------------------------
(* The parent collection and its native access control                     *)
(* (girder.models.model_base, outside this file).                          *)

\* The kinds of parent document of the model: a public one with no grant,
\* and a private one that grants the user u1 WRITE and the flag f.
ParentKinds ==
    { [public |-> TRUE,  grant |-> NoGrant, flags |-> {}],
      [public |-> FALSE, grant |-> WRITE,   flags |-> Flags] }

\* The parent collections of the model.  The two identifiers are
\* interchangeable, so of two collections that differ by exchanging them
\* only the one with p1 absent, or public, first is kept.
KindRank(store, pid) ==
    IF pid \notin DOMAIN store THEN 0 ELSE IF store[pid].public THEN 1 ELSE 2

ParentStores ==
    { store \in UNION { [D -> ParentKinds] : D \in SUBSET ParentIds } :
        KindRank(store, "p1") <= KindRank(store, "p2") }

\* Model.load(id, force=True) on the parent collection: the document or None.
ParentLoadForce(id) == IF id \in DOMAIN parents THEN <<parents[id]>> ELSE <<>>

\* Whether the access list of an existing parent document grants the level.
Grants(pdoc, user, level) ==
    IF user = NoUser THEN level = READ /\ pdoc.public
    ELSE IF isAdmin(user) THEN TRUE
    ELSE (level = READ /\ pdoc.public) \/ pdoc.grant >= level

\* AccessControlledModel.hasAccess(resource, user, level); resource may be None.
ParentHasAccess(resource, user, level) ==
    IF resource = <<>> THEN FALSE
    ELSE IF level = NoLevel THEN TRUE
    ELSE Grants(resource[1], user, level)

\* AccessControlledModel.hasAccessFlags(resource, user, flags).
ParentHasAccessFlags(resource, user, flags) ==
    IF flags = {} THEN TRUE
    ELSE IF resource = <<>> THEN FALSE
    ELSE IF user = NoUser THEN FALSE
    ELSE IF isAdmin(user) THEN TRUE
    ELSE flags \subseteq resource[1].flags

-----------------------------------------------------------------------------
(* filterResultsByPermission: one generator frame per pass.                *)

Passes == {1, 2}

IdlePass ==
    [pc |-> "idle", cursor |-> <<>>, user |-> NoUser, level |-> READ,
     flags |-> {}, offset |-> 0, limit |-> 0, removeKeys |-> {},
     pos |-> 0, passed |-> 0, cache |-> EmptyMap, yielded |-> <<>>,
     loads |-> [p \in ParentIds |-> 0], decided |-> [p \in ParentIds |-> 0]]

\* The frame of a call filterResultsByPermission(cursor, user, level, limit,
\* offset, removeKeys, flags) before its first item is pulled.
NewPass(cursor, user, level, limit, offset, removeKeys, flags) ==
    [IdlePass EXCEPT !.pc = "run", !.cursor = cursor, !.user = user,
                     !.level = level, !.flags = flags, !.offset = offset,
                     !.limit = limit, !.removeKeys = removeKeys]

\* A cache kept on the model object instead of in the generator's frame:
\* every pass sees the decisions of all of them.
SharedCache(p) ==
    LET ids == UNION { DOMAIN pass[q].cache : q \in Passes }
        owner(id) == IF id \in DOMAIN pass[p].cache THEN p
                     ELSE CHOOSE q \in Passes : id \in DOMAIN pass[q].cache
    IN  [id \in ids |-> pass[owner(id)].cache[id]]

\* The cache the closure hasAccess of pass p reads: the dict of its own frame.
resourceAccessCache(p) == pass[p].cache

\* The level check alone, the flags forgotten.
AccessDecisionNoFlags(resource, user, level, flags) ==
    ParentHasAccess(resource, user, level)

\* val as the closure computes it on a cache miss.
AccessDecision(resource, user, level, flags) ==
    LET val == ParentHasAccess(resource, user, level)
    IN  IF flags # {} THEN val /\ ParentHasAccessFlags(resource, user, flags)
        ELSE val

\* Only grants are remembered.
CacheStoreGrantedOnly(cache, resourceId, val) ==
    IF val THEN (resourceId :> val) @@ cache ELSE cache

\* resourceAccessCache[resourceId] = val
CacheStore(cache, resourceId, val) == (resourceId :> val) @@ cache

\* The window's end taken from the limit alone.
endIndexLimitOnly(offset, limit) == IF limit # 0 THEN limit ELSE -1

\* endIndex = offset + limit if limit else None; None is -1 here.
endIndex(offset, limit) == IF limit # 0 THEN offset + limit ELSE -1

\* for key in removeKeys: if key in result: del result[key]
RemoveKeys(result, removeKeys) ==
    [k \in DOMAIN result \ removeKeys |-> result[k]]

\* islice(filteredCursor, offset, endIndex) has handed out its last item.
WindowClosed(f) ==
    LET stop == endIndex(f.offset, f.limit)
    IN  stop # -1 /\ f.passed >= stop

\* What the generator does with a candidate once hasAccess has answered val:
\* filter drops it, or islice skips it (below offset), or the loop yields it.
Emit(f, result, val) ==
    IF ~val THEN [f EXCEPT !.pos = @ + 1]
    ELSE IF f.passed < f.offset
         THEN [f EXCEPT !.pos = @ + 1, !.passed = @ + 1]
         ELSE [f EXCEPT !.pos = @ + 1, !.passed = @ + 1,
                        !.yielded = Append(@, RemoveKeys(result, f.removeKeys))]

\* The generator is about to pull a candidate from the cursor.
Pulling(f) ==
    /\ f.pc = "run"
    /\ ~WindowClosed(f)
    /\ f.pos < Len(f.cursor)

NextResult(f) == f.cursor[f.pos + 1]

\* hasAccess(_result) returns the cached check.
HitStep(f, cache) ==
    Emit(f, NextResult(f), cache[NextResult(f)[resourceParent]])

\* hasAccess(_result) loads the parent, computes val and sets the cache.
MissStep(f) ==
    LET resourceId == NextResult(f)[resourceParent]
        resource == ParentLoadForce(resourceId)
        val == AccessDecision(resource, f.user, f.level, f.flags)
        g == [f EXCEPT !.cache = CacheStore(@, resourceId, val),
                       !.loads[resourceId] = @ + 1,
                       !.decided[resourceId] = @ + 1]
    IN  Emit(g, NextResult(f), val)

\* _result[self.resourceParent] raises KeyError, which ends the generator.
RaiseStep(f) == [f EXCEPT !.pos = @ + 1, !.pc = "raised"]

\* StopIteration: the cursor is exhausted or the islice window is full.
StopStep(f) == [f EXCEPT !.pc = "done"]

\* The next candidate's parent is in the cache: the cached answer is used.
CachedCheck(p) ==
    /\ Pulling(pass[p])
    /\ resourceParent \in DOMAIN NextResult(pass[p])
    /\ NextResult(pass[p])[resourceParent] \in DOMAIN resourceAccessCache(p)
    /\ pass' = [pass EXCEPT ![p] = HitStep(pass[p], resourceAccessCache(p))]
    /\ UNCHANGED <<parents, docs, env, call>>

\* The next candidate's parent is not cached: load it, decide, cache.
FreshCheck(p) ==
    /\ Pulling(pass[p])
    /\ resourceParent \in DOMAIN NextResult(pass[p])
    /\ NextResult(pass[p])[resourceParent] \notin DOMAIN resourceAccessCache(p)
    /\ pass' = [pass EXCEPT ![p] = MissStep(pass[p])]
    /\ UNCHANGED <<parents, docs, env, call>>

\* The next candidate has no parent-reference key.
KeyErrorStep(p) ==
    /\ Pulling(pass[p])
    /\ resourceParent \notin DOMAIN NextResult(pass[p])
    /\ pass' = [pass EXCEPT ![p] = RaiseStep(pass[p])]
    /\ UNCHANGED <<parents, docs, env, call>>

\* The generator returns.
Finish(p) ==
    /\ pass[p].pc = "run"
    /\ WindowClosed(pass[p]) \/ pass[p].pos >= Len(pass[p].cursor)
    /\ pass' = [pass EXCEPT ![p] = StopStep(pass[p])]
    /\ UNCHANGED <<parents, docs, env, call>>

\* The generator of frame f driven to its end with nothing else running.
RECURSIVE RunAlone(_)
RunAlone(f) ==
    IF f.pc # "run" THEN f
    ELSE IF ~Pulling(f) THEN RunAlone(StopStep(f))
    ELSE IF resourceParent \notin DOMAIN NextResult(f) THEN RunAlone(RaiseStep(f))
    ELSE IF NextResult(f)[resourceParent] \in DOMAIN f.cache
         THEN RunAlone(HitStep(f, f.cache))
         ELSE RunAlone(MissStep(f))

PassNext == \E p \in Passes :
    CachedCheck(p) \/ FreshCheck(p) \/ KeyErrorStep(p) \/ Finish(p)

-----------------------------------------------------------------------------
(* Documents of the resource collection and cursors over them.             *)

Names == {1, 2}

\* A resource document.  ref is <<"parent", id>> (the parent-reference field
\* holds id), <<"attached", id>> (no parent-reference key, attachedToType and
\* attachedToId set), <<"nullparent", id>> (the parent-reference field holds
\* None, attachedTo set) or <<"nokey", "">> (none of the fields).
MkDoc(id, ref, name) ==
    CASE ref[1] = "parent" ->
           [_id |-> id, name |-> name, folderId |-> ref[2]]
      [] ref[1] = "attached" ->
           [_id |-> id, name |-> name,
            attachedToType |-> resourceColl, attachedToId |-> ref[2]]
      [] ref[1] = "nullparent" ->
           [_id |-> id, name |-> name, folderId |-> "null",
            attachedToType |-> resourceColl, attachedToId |-> ref[2]]
      [] OTHER -> [_id |-> id, name |-> name]

ParentRefs == { <<"parent", pid>> : pid \in ParentIds }

RefChoices == ParentRefs \cup { <<"nokey", "">> }

AllRefs == RefChoices \cup { <<k, pid>> : k \in {"attached", "nullparent"}, pid \in ParentIds }

Cursors ==
    UNION { { [i \in 1..n |-> MkDoc(i, refs[i], 1)] : refs \in [1..n -> RefChoices] }
            : n \in 0..MaxLen }

ConcCursors ==
    UNION { { [i \in 1..n |-> MkDoc(i, refs[i], 1)] : refs \in [1..n -> RefChoices] }
            : n \in 0..MaxDocs }

NoCall == [op |-> "none"]

DefaultEnv == [native |-> TRUE, version |-> <<3, 4>>]

\* One pass over an arbitrary cursor with arbitrary parameters.
InitFilter ==
    /\ parents \in ParentStores
    /\ docs = <<>>
    /\ env = DefaultEnv
    /\ call = NoCall
    /\ \E cursor \in Cursors, user \in UserOrNone, level \in Levels,
          limit \in 0..MaxWin, offset \in 0..MaxWin,
          removeKeys \in {{}, {"name"}}, flags \in SUBSET Flags :
          pass = [p \in Passes |->
                    IF p = 1
                    THEN NewPass(cursor, user, level, limit, offset, removeKeys, flags)
                    ELSE IdlePass]

SpecFilter == InitFilter /\ [][PassNext]_vars

-----------------------------------------------------------------------------
(* The resource collection and the base loader                             *)
(* (girder.models.model_base.Model, outside this file).                    *)

DocIds == 0..(MaxDocs + 1)

\* The document of the resource collection with the identifier, or None.
Lookup(id) ==
    IF \E i \in 1..Len(docs) : docs[i]._id = id
    THEN <<docs[CHOOSE i \in 1..Len(docs) : docs[i]._id = id]>>
    ELSE <<>>

\* A projection: the listed keys and _id; NoFields keeps the document whole.
Project(doc, fields) ==
    IF fields = NoFields THEN doc
    ELSE [k \in DOMAIN doc \cap (fields \cup {"_id"}) |-> doc[k]]

\* Model._supplementFields(fields, extraFields)
SupplementFields(fields, extraFields) ==
    IF fields = NoFields THEN NoFields ELSE fields \cup extraFields

\* Model._removeSupplementalFields(doc, fields)
RemoveSupplementalFields(doc, fields) == Project(doc, fields)

Returned(value) == [status |-> "return", value |-> value, error |-> ""]

Raised(error) == [status |-> "raise", value |-> <<>>, error |-> error]

\* Model.load(self, id, fields=loadFields, exc=exc)
ModelLoad(id, fields, exc) ==
    IF Lookup(id) = <<>>
    THEN IF exc THEN Raised("NotFound") ELSE Returned(<<>>)
    ELSE Returned(<<Project(Lookup(id)[1], fields)>>)

\* self.model(loadType).load(loadId, level=level, user=user, exc=exc): the
\* parent type's own load, which requires the level on the parent it finds.
ParentLoad(loadType, loadId, level, user, exc) ==
    IF loadType # resourceColl THEN Raised("MisconfiguredResourceType")
    ELSE IF ParentLoadForce(loadId) = <<>>
    THEN IF exc THEN Raised("NotFound") ELSE Returned(<<>>)
    ELSE IF ParentHasAccess(ParentLoadForce(loadId), user, level)
    THEN Returned(ParentLoadForce(loadId))
    ELSE Raised("AccessDenied")

\* doc.get(key): the value, or None ("null") when the key is absent.
Get(doc, key) == IF key \in DOMAIN doc THEN doc[key] ELSE "null"

-----------------------------------------------------------------------------
(* load, hasAccess, hasAccessFlags, requireAccess, requireAccessFlags.     *)

FieldChoices == {NoFields, {"name"}, {"name", resourceParent}}

\* The outcome of load(id, level, user, force=force, fields=fields, exc=exc).
LoadOutcome(id, level, user, force, fields, exc) ==
    LET extraFields == {"attachedToId", "attachedToType", resourceParent}
        loadFields == IF ~force THEN SupplementFields(fields, extraFields)
                      ELSE fields
        got == ModelLoad(id, loadFields, exc)
    IN  IF got.status = "raise" THEN got
        ELSE IF force \/ got.value = <<>> THEN got
        ELSE LET doc == got.value[1]
                 viaParent == Get(doc, resourceParent) # "null"
                 loadType == IF viaParent THEN resourceColl
                             ELSE Get(doc, "attachedToType")
                 loadId == IF viaParent THEN doc[resourceParent]
                           ELSE Get(doc, "attachedToId")
                 parent == ParentLoad(loadType, loadId, level, user, exc)
             IN  IF parent.status = "raise" THEN parent
                 ELSE Returned(<<RemoveSupplementalFields(doc, fields)>>)

Load ==
    \E id \in DocIds, level \in Levels, user \in UserOrNone,
       force \in BOOLEAN, fields \in FieldChoices, exc \in BOOLEAN :
        /\ call.op = "none"
        /\ call' = [op |-> "load", id |-> id, level |-> level, user |-> user,
                    force |-> force, fields |-> fields, exc |-> exc,
                    out |-> LoadOutcome(id, level, user, force, fields, exc)]
        /\ UNCHANGED <<parents, docs, env, pass>>

\* The outcome of hasAccess(resource, user, level).
HasAccessOutcome(resource, user, level) ==
    IF resourceParent \notin DOMAIN resource THEN Raised("KeyError")
    ELSE Returned(ParentHasAccess(ParentLoadForce(resource[resourceParent]),
                                  user, level))

HasAccess ==
    \E i \in 1..Len(docs), user \in UserOrNone, level \in Levels :
        /\ call.op = "none"
        /\ call' = [op |-> "hasAccess", doc |-> docs[i], user |-> user,
                    level |-> level,
                    out |-> HasAccessOutcome(docs[i], user, level)]
        /\ UNCHANGED <<parents, docs, env, pass>>

\* The outcome of hasAccessFlags(doc, user, flags).
HasAccessFlagsOutcome(doc, user, flags) ==
    IF flags = {} THEN Returned(TRUE)
    ELSE IF resourceParent \notin DOMAIN doc THEN Raised("KeyError")
    ELSE Returned(ParentHasAccessFlags(ParentLoadForce(doc[resourceParent]),
                                       user, flags))

HasAccessFlags ==
    \E i \in 1..Len(docs), user \in UserOrNone, flags \in SUBSET Flags :
        /\ call.op = "none"
        /\ call' = [op |-> "hasAccessFlags", doc |-> docs[i], user |-> user,
                    flags |-> flags,
                    out |-> HasAccessFlagsOutcome(docs[i], user, flags)]
        /\ UNCHANGED <<parents, docs, env, pass>>

\* The text of the AccessException of requireAccess, by its parts.
DeniedMessage(doc, user, level) ==
    LET perm == IF level = READ THEN "Read"
                ELSE IF level = WRITE THEN "Write"
                ELSE IF level \in {ADMIN, SITE_ADMIN} THEN "Admin"
                ELSE "Unknown level"
        userid == IF user # NoUser THEN user ELSE "None"
    IN  <<perm, "access denied for", "item", doc._id, userid>>

\* The outcome of requireAccess(doc, user, level).
RequireAccessOutcome(doc, user, level) ==
    LET has == HasAccessOutcome(doc, user, level)
    IN  IF has.status = "raise" THEN has
        ELSE IF ~has.value
        THEN [status |-> "raise", value |-> <<>>, error |-> "AccessException",
              message |-> DeniedMessage(doc, user, level)]
        ELSE Returned(<<>>)

RequireAccess ==
    \E i \in 1..Len(docs), user \in UserOrNone, level \in Levels \cup {SITE_ADMIN} :
        /\ call.op = "none"
        /\ call' = [op |-> "requireAccess", doc |-> docs[i], user |-> user,
                    level |-> level,
                    out |-> RequireAccessOutcome(docs[i], user, level)]
        /\ UNCHANGED <<parents, docs, env, pass>>

\* The outcome of requireAccessFlags(doc, user, flags).
RequireAccessFlagsOutcome(doc, user, flags) ==
    IF flags = {} THEN Returned(<<>>)
    ELSE IF resourceParent \notin DOMAIN doc THEN Raised("KeyError")
    ELSE IF ParentHasAccessFlags(ParentLoadForce(doc[resourceParent]), user, flags)
    THEN Returned(<<>>)
    ELSE Raised("AccessException")

RequireAccessFlags ==
    \E i \in 1..Len(docs), user \in UserOrNone, flags \in SUBSET Flags :
        /\ call.op = "none"
        /\ call' = [op |-> "requireAccessFlags", doc |-> docs[i], user |-> user,
                    flags |-> flags,
                    out |-> RequireAccessFlagsOutcome(docs[i], user, flags)]
        /\ UNCHANGED <<parents, docs, env, pass>>

\* The resource collections of the model: up to MaxDocs documents of any kind.
DocStores ==
    UNION { { [i \in 1..n |-> MkDoc(i, refs[i], names[i])] :
                refs \in [1..n -> AllRefs], names \in [1..n -> {1}] }
            : n \in 0..MaxDocs }

InitLoad ==
    /\ parents \in ParentStores
    /\ docs \in DocStores
    /\ env = DefaultEnv
    /\ call = NoCall
    /\ pass = [p \in Passes |-> IdlePass]

NextLoad ==
    Load \/ HasAccess \/ HasAccessFlags \/ RequireAccess \/ RequireAccessFlags

SpecLoad == InitLoad /\ [][NextLoad]_vars

-----------------------------------------------------------------------------
(* The store: find and aggregate (pymongo, outside this file).             *)

\* A query is <<>> ({}: every document) or <<field, value>>.  The fields
\* "$text" and "$prefix" are the filters the search adapters build; both
\* select on the name of the document.
Matches(doc, query) ==
    IF query = <<>> THEN TRUE
    ELSE IF query[1] \in {"$text", "$prefix"} THEN doc.name = query[2]
    ELSE query[1] \in DOMAIN doc /\ doc[query[1]] = query[2]

Matching(rows, query) ==
    LET Test(doc) == Matches(doc, query) IN SelectSeq(rows, Test)

\* Rows in the order of a sort key: by name ascending, or by text score
\* (here the name, descending); NoSort keeps the natural order.
SortRows(rows, sort) ==
    LET One(doc) == doc.name = 1
        Two(doc) == doc.name = 2
    IN  IF sort = NoSort THEN rows
        ELSE IF sort = "name" THEN SelectSeq(rows, One) \o SelectSeq(rows, Two)
        ELSE SelectSeq(rows, Two) \o SelectSeq(rows, One)

\* skip offset, then at most limit rows (0: no limit).
Window(rows, offset, limit) ==
    SubSeq(rows, offset + 1,
           IF limit = 0 \/ offset + limit > Len(rows) THEN Len(rows)
           ELSE offset + limit)

ProjectRows(rows, fields) == [i \in 1..Len(rows) |-> Project(rows[i], fields)]

\* Model.find(query, offset, limit, timeout, fields, sort): the rows of the cursor.
Find(query, offset, limit, fields, sort) ==
    ProjectRows(Window(SortRows(Matching(docs, query), sort), offset, limit), fields)

\* Cursor.count(): the documents matching the query, whatever skip and limit.
FindCount(query) == Len(Matching(docs, query))

\* One stage of an aggregation pipeline applied to rows.
Stage(rows, stage) ==
    CASE stage.op = "$match" /\ stage.kind = "query" ->
           Matching(rows, stage.query)
      [] stage.op = "$match" /\ stage.kind = "permission" ->
           LET Test(row) ==
                   \E j \in 1..Len(row[stage.field]) :
                       Grants(row[stage.field][j], stage.user, stage.level)
           IN  SelectSeq(rows, Test)
      [] stage.op = "$lookup" ->
           [i \in 1..Len(rows) |->
               (stage.as :>
                   (IF stage.localField \in DOMAIN rows[i]
                       /\ rows[i][stage.localField] \in DOMAIN parents
                    THEN <<parents[rows[i][stage.localField]]>> ELSE <<>>))
               @@ rows[i]]
      [] stage.op = "$project" /\ stage.kind = "exclude" ->
           [i \in 1..Len(rows) |-> [k \in DOMAIN rows[i] \ stage.keys |-> rows[i][k]]]
      [] stage.op = "$project" /\ stage.kind = "include" ->
           ProjectRows(rows, stage.keys)
      [] stage.op = "$sort" -> SortRows(rows, stage.sort)
      [] stage.op = "$skip" -> Window(rows, stage.n, 0)
      [] stage.op = "$limit" -> Window(rows, 0, stage.n)
      [] stage.op = "$group" ->
           IF rows = <<>> THEN <<>> ELSE <<[_id |-> "null", count |-> Len(rows)]>>

\* self.collection.aggregate(pipeline): the stages applied in order.
RECURSIVE Aggregate(_, _)
Aggregate(rows, pipeline) ==
    IF pipeline = <<>> THEN rows
    ELSE Aggregate(Stage(rows, Head(pipeline)), Tail(pipeline))

-----------------------------------------------------------------------------
(* findWithPermissions, textSearch, prefixSearch.                          *)

Versions == {NoVersion, <<3, 2>>, <<3, 4>>, <<4, 0>>}

\* The parent type is an AccessControlledModel or not, and the version of
\* the server (which is not read when the parent type is not native).
Envs ==
    { [native |-> TRUE, version |-> v] : v \in Versions }
    \cup { [native |-> FALSE, version |-> <<3, 4>>] }

\* v <= w on version tuples of two components.
TupleLessEq(v, w) == v[1] < w[1] \/ (v[1] = w[1] /\ v[2] <= w[2])

\* Python's v < w on version tuples of two components.
TupleLess(v, w) == v[1] < w[1] \/ (v[1] = w[1] /\ v[2] < w[2])

\* user is None and level is not None and level > WRITE
AnonymousAboveWrite(user, level) ==
    user = NoUser /\ level # NoLevel /\ level > WRITE

\* user is None and level is not None and level > AccessType.READ
AnonymousAboveRead(user, level) ==
    user = NoUser /\ level # NoLevel /\ level > READ

\* level is not None and (not user or not user['admin'])
NeedsFilter(user, level) ==
    level # NoLevel /\ (user = NoUser \/ ~isAdmin(user))

\* The condition of the fallback: the parent type is not an
\* AccessControlledModel, or the server version is unknown or below (3, 4).
UseFallback ==
    \/ ~env.native
    \/ env.version = NoVersion
    \/ TupleLess(env.version, <<3, 4>>)

\* _permissionClauses(user, level, prefix) as a $match on the joined field.
permissionClauses(user, level, prefix) ==
    [op |-> "$match", kind |-> "permission", field |-> prefix,
     user |-> user, level |-> level]

initialPipeline(query, user, level) ==
    << [op |-> "$match", kind |-> "query", query |-> query],
       [op |-> "$lookup", from |-> resourceColl, localField |-> resourceParent,
        foreignField |-> "_id", as |-> "_access"],
       permissionClauses(user, level, "_access") >>

countPipeline(query, user, level) ==
    initialPipeline(query, user, level) \o << [op |-> "$group"] >>

fullPipeline(query, offset, limit, fields, sort, user, level) ==
    initialPipeline(query, user, level)
    \o << [op |-> "$project", kind |-> "exclude", keys |-> {"_access"}] >>
    \o (IF sort # NoSort THEN << [op |-> "$sort", sort |-> sort] >> ELSE <<>>)
    \o (IF fields # NoFields
        THEN << [op |-> "$project", kind |-> "include", keys |-> fields] >>
        ELSE <<>>)
    \o (IF offset # 0 THEN << [op |-> "$skip", n |-> offset] >> ELSE <<>>)
    \o (IF limit # 0 THEN << [op |-> "$limit", n |-> limit] >> ELSE <<>>)

\* count() of the command cursor: 0 when the count pipeline yields no row.
PipelineCount(query, user, level) ==
    LET res == Aggregate(docs, countPipeline(query, user, level))
    IN  IF res = <<>> THEN 0 ELSE res[1].count

MatchNothing == <<"__matchnothing", "nothing">>

\* What findWithPermissions returns: path is the branch taken; a cursor or a
\* command cursor has rows and a count; a generator has the cursor it filters.
FindWithPermissionsResult(query, offset, limit, fields, sort, user, level) ==
    IF AnonymousAboveRead(user, level)
    THEN [path |-> "matchnothing", kind |-> "cursor", hasCount |-> TRUE,
          rows |-> Find(MatchNothing, offset, limit, fields, sort),
          count |-> FindCount(MatchNothing)]
    ELSE IF NeedsFilter(user, level)
    THEN IF UseFallback
         THEN [path |-> "fallback", kind |-> "generator", hasCount |-> FALSE,
               rows |-> Find(query, 0, 0, fields, sort), count |-> 0]
         ELSE [path |-> "pipeline", kind |-> "command", hasCount |-> TRUE,
               rows |-> Aggregate(docs, fullPipeline(query, offset, limit, fields,
                                                     sort, user, level)),
               count |-> PipelineCount(query, user, level)]
    ELSE [path |-> "raw", kind |-> "cursor", hasCount |-> TRUE,
          rows |-> Find(query, offset, limit, fields, sort),
          count |-> FindCount(query)]

\* The generator frame behind a returned handle: the pass of the fallback
\* (filterResultsByPermission(cursor, user, level, limit, offset)), else none.
FrameOf(handle, offset, limit, user, level) ==
    IF handle.kind = "generator"
    THEN NewPass(handle.rows, user, level, limit, offset, {}, {})
    ELSE IdlePass

Args(query, offset, limit, fields, sort, user, level) ==
    [query |-> query, offset |-> offset, limit |-> limit, fields |-> fields,
     sort |-> sort, user |-> user, level |-> level]

Queries == {<<>>, <<"name", 1>>}

Terms == {1, 2}

LevelOrNone == Levels \cup {NoLevel}

\* <<offset, limit>> and <<fields, sort>> of the calls of the model.
WindowChoices == {<<0, 0>>, <<0, 1>>, <<1, 1>>}

ShapeChoices == {<<NoFields, NoSort>>, <<NoFields, "name">>, <<{"name"}, NoSort>>}

FindWithPermissions ==
    \E query \in Queries, win \in WindowChoices, shape \in ShapeChoices,
       user \in UserOrNone, level \in LevelOrNone :
        LET offset == win[1]
            limit == win[2]
            fields == shape[1]
            sort == shape[2]
            handle == FindWithPermissionsResult(query, offset, limit, fields,
                                                sort, user, level)
        IN  /\ call.op = "none"
            /\ call' = [op |-> "findWithPermissions",
                        args |-> Args(query, offset, limit, fields, sort, user, level),
                        handle |-> handle]
            /\ pass' = [pass EXCEPT ![1] = FrameOf(handle, offset, limit, user, level)]
            /\ UNCHANGED <<parents, docs, env>>

\* sort is None and callable(cursor.count) and cursor.count() <= TEXT_SCORE_SORT_MAX
RelevanceSortUpToMax(sort, cursor) ==
    sort = NoSort /\ cursor.hasCount /\ cursor.count <= TEXT_SCORE_SORT_MAX

\* sort is None and callable(cursor.count) and cursor.count() < TEXT_SCORE_SORT_MAX
RelevanceSortAffordable(sort, cursor) ==
    sort = NoSort /\ cursor.hasCount /\ cursor.count < TEXT_SCORE_SORT_MAX

TextScoreSort == "_textScore"

\* self._textSearchFilters(query, filters, fields): the store filter of a term.
TextSearchFilters(query) == <<"$text", query>>

\* self._prefixSearchFilters(query, filters, prefixSearchFields)
PrefixSearchFilters(query) == <<"$prefix", query>>

TextSearch ==
    \E query \in Terms, limit \in 0..1, sort \in {NoSort, "name"},
       user \in UserOrNone, level \in LevelOrNone :
        LET filters == TextSearchFilters(query)
            first == FindWithPermissionsResult(filters, 0, limit, NoFields,
                                               sort, user, level)
            again == RelevanceSortAffordable(sort, first)
            second == FindWithPermissionsResult(filters, 0, limit, NoFields,
                                                TextScoreSort, user, level)
            cursor == IF again THEN second ELSE first
            one == Args(filters, 0, limit, NoFields, sort, user, level)
        IN  /\ call.op = "none"
            /\ call' = [op |-> "textSearch",
                        args |-> one,
                        issued |-> IF again
                                   THEN <<one, [one EXCEPT !.sort = TextScoreSort]>>
                                   ELSE <<one>>,
                        first |-> first,
                        handle |-> cursor]
            /\ pass' = [pass EXCEPT ![1] = FrameOf(cursor, 0, limit, user, level)]
            /\ UNCHANGED <<parents, docs, env>>

PrefixSearch ==
    \E query \in Terms, user \in UserOrNone, level \in LevelOrNone :
        LET filters == PrefixSearchFilters(query)
            handle == FindWithPermissionsResult(filters, 0, 0, NoFields, NoSort,
                                                user, level)
        IN  /\ call.op = "none"
            /\ call' = [op |-> "prefixSearch",
                        args |-> Args(filters, 0, 0, NoFields, NoSort, user, level),
                        handle |-> handle]
            /\ pass' = [pass EXCEPT ![1] = FrameOf(handle, 0, 0, user, level)]
            /\ UNCHANGED <<parents, docs, env>>

\* The resource collections of the query model: documents with or without
\* the parent-reference key, of either name.
QueryDocStores ==
    UNION { { [i \in 1..n |-> MkDoc(i, refs[i], names[i])] :
                refs \in [1..n -> RefChoices], names \in [1..n -> Names] }
            : n \in 0..MaxDocs }

InitQuery ==
    /\ parents \in ParentStores
    /\ docs \in QueryDocStores
    /\ env \in Envs
    /\ call = NoCall
    /\ pass = [p \in Passes |-> IdlePass]

NextQuery == FindWithPermissions \/ PassNext

SpecQuery == InitQuery /\ [][NextQuery]_vars

NextSearch == TextSearch \/ PrefixSearch \/ PassNext

SpecSearch == InitQuery /\ [][NextSearch]_vars

\* Two passes over the same documents for different principals or levels,
\* their steps interleaved.
InitConc ==
    /\ parents \in ParentStores
    /\ docs = <<>>
    /\ env = DefaultEnv
    /\ call = NoCall
    /\ \E cursor \in ConcCursors, u1 \in UserOrNone, u2 \in UserOrNone,
          l1 \in Levels, l2 \in Levels :
          /\ u1 # u2 \/ l1 # l2
          /\ pass = [p \in Passes |->
                       IF p = 1 THEN NewPass(cursor, u1, l1, 0, 0, {}, {})
                       ELSE NewPass(cursor, u2, l2, 0, 0, {}, {})]

SpecConc == InitConc /\ [][PassNext]_vars

-----------------------------------------------------------------------------
(* Properties of filterResultsByPermission.                                *)

YieldedIds(f) == { f.yielded[j]._id : j \in 1..Len(f.yielded) }

IdSeq(s) == [j \in 1..Len(s) |-> s[j]._id]

IsPrefix(s, t) == Len(s) <= Len(t) /\ s = SubSeq(t, 1, Len(s))

\* The parent type's answer for an existing parent document.
ParentAnswer(f, pid) ==
    /\ ParentHasAccess(<<parents[pid]>>, f.user, f.level)
    /\ f.flags # {} => ParentHasAccessFlags(<<parents[pid]>>, f.user, f.flags)

Accessible(f, result) ==
    /\ resourceParent \in DOMAIN result
    /\ result[resourceParent] \in DOMAIN parents
    /\ ParentAnswer(f, result[resourceParent])

\* The identifiers at positions offset .. offset+limit-1 (0-based) of the
\* accessible candidates, to the end when limit = 0.
WindowOfAccessible(f) ==
    LET Test(result) == Accessible(f, result)
        acc == IdSeq(SelectSeq(f.cursor, Test))
        last == IF f.limit = 0 \/ f.offset + f.limit > Len(acc)
                THEN Len(acc) ELSE f.offset + f.limit
    IN  SubSeq(acc, f.offset + 1, last)

C4_OneLoadPerParent ==
    \A p \in Passes : \A pid \in ParentIds :
        /\ pass[p].loads[pid] <= 1
        /\ pass[p].decided[pid] <= 1
        /\ pid \in DOMAIN pass[p].cache <=> pass[p].loads[pid] = 1

\* A finished pass that consumed three candidates of one denied parent.
C4_Witness ==
    LET f == pass[1]
    IN  /\ f.pc = "done" /\ f.pos >= 3
        /\ \E pid \in ParentIds :
              /\ \A i \in 1..f.pos : resourceParent \in DOMAIN f.cursor[i]
                                     /\ f.cursor[i][resourceParent] = pid
              /\ f.cache[pid] = FALSE
              /\ f.loads[pid] = 1

\* The frame a pass started from.
StartOf(f) ==
    NewPass(f.cursor, f.user, f.level, f.limit, f.offset, f.removeKeys, f.flags)

\* C9: under every interleaving, what a pass has yielded is a prefix of
\* what it yields when run alone, and when it ends it has ended the same way
\* with the same items.
C9_NoInterference ==
    \A p \in Passes :
        LET f == pass[p]
            alone == RunAlone(StartOf(f))
        IN  f.pc # "idle" =>
            /\ IsPrefix(f.yielded, alone.yielded)
            /\ f.pc # "run" => (f.pc = alone.pc /\ f.yielded = alone.yielded)

\* Both passes are done, each consulted a parent the other had already
\* decided the other way, and they yielded different items.
C9_Witness ==
    /\ pass[1].pc = "done" /\ pass[2].pc = "done"
    /\ pass[1].yielded # pass[2].yielded
    /\ \E pid \in ParentIds :
          /\ pid \in DOMAIN pass[1].cache /\ pid \in DOMAIN pass[2].cache
          /\ pass[1].cache[pid] # pass[2].cache[pid]

-----------------------------------------------------------------------------
(* Properties of load, hasAccess and hasAccessFlags.                       *)

\* The parent a stored document resolves to: the parent-reference field when
\* populated, otherwise the attached-to identifier; <<>> when there is none.
ResolvedParent(doc) ==
    IF Get(doc, resourceParent) # "null" THEN <<doc[resourceParent]>>
    ELSE IF Get(doc, "attachedToId") # "null" THEN <<doc["attachedToId"]>>
    ELSE <<>>

\* C2: load with force=False returns a document only if its parent exists
\* and grants the principal the requested level.
C2_LoadOnlyWithParentAccess ==
    (/\ call.op = "load"
     /\ ~call.force
     /\ call.out.status = "return"
     /\ call.out.value # <<>>)
    => LET parent == ResolvedParent(Lookup(call.id)[1])
       IN  /\ parent # <<>>
           /\ parent[1] \in DOMAIN parents
           /\ ParentHasAccess(<<parents[parent[1]]>>, call.user, call.level)

\* The parent of a document cannot be resolved: the parent-reference key is
\* absent or names no parent document.
Unresolvable(doc) ==
    \/ resourceParent \notin DOMAIN doc
    \/ doc[resourceParent] \notin DOMAIN parents

\* C6: hasAccess and hasAccessFlags (with flags) on a resource whose parent
\* cannot be resolved do not raise and return false.
C6_UnresolvableParentIsNoAccess ==
    (/\ call.op \in {"hasAccess", "hasAccessFlags"}
     /\ Unresolvable(call.doc)
     /\ call.op = "hasAccessFlags" => call.flags # {})
    => (call.out.status = "return" /\ call.out.value = FALSE)

-----------------------------------------------------------------------------
(* Properties of findWithPermissions and textSearch.                       *)

RowIds(rows) == { rows[j]._id : j \in 1..Len(rows) }

\* The identifiers the store-side pipeline returns for the arguments of a call.
PipelineIds(a) ==
    RowIds(Aggregate(docs, fullPipeline(a.query, a.offset, a.limit, a.fields,
                                        a.sort, a.user, a.level)))

\* A fallback call for a principal that is no administrator, with a level,
\* offset = 0, limit = 0 and no projection, whose generator has ended.
FallbackEnded ==
    /\ call.op = "findWithPermissions"
    /\ call.handle.path = "fallback"
    /\ call.args.offset = 0 /\ call.args.limit = 0
    /\ call.args.fields = NoFields
    /\ pass[1].pc \in {"done", "raised"}

\* C5: the fallback path returns, for the same documents, query, principal
\* and level, the set of identifiers the store-side pipeline returns.
C5_FallbackEqualsPipeline ==
    FallbackEnded =>
        /\ pass[1].pc = "done"
        /\ YieldedIds(pass[1]) = PipelineIds(call.args)

\* The fallback agrees with the pipeline whenever its generator returns.
C5_AgreeWhenReturned ==
    (FallbackEnded /\ pass[1].pc = "done") =>
        YieldedIds(pass[1]) = PipelineIds(call.args)

\* C7: findWithPermissions with no principal and a level above READ returns
\* a cursor with no rows and count 0, and starts no filtering pass, so no
\* parent is loaded.
C7_AnonymousAboveReadIsEmpty ==
    (/\ call.op = "findWithPermissions"
     /\ call.args.user = NoUser
     /\ call.args.level # NoLevel
     /\ call.args.level > READ)
    => /\ call.handle.kind = "cursor"
       /\ call.handle.rows = <<>>
       /\ call.handle.count = 0
       /\ \A p \in Passes : pass[p].pc = "idle"
       /\ \A p \in Passes, pid \in ParentIds :
              pass[p].loads[pid] = 0 /\ pass[p].decided[pid] = 0

\* An anonymous call at ADMIN over a collection with a document of a public
\* parent that the query matches.
C7_Witness ==
    /\ call.op = "findWithPermissions"
    /\ call.args.user = NoUser /\ call.args.level = ADMIN
    /\ \E i \in 1..Len(docs) :
          /\ Matches(docs[i], call.args.query)
          /\ resourceParent \in DOMAIN docs[i]
          /\ docs[i][resourceParent] \in DOMAIN parents
          /\ parents[docs[i][resourceParent]].public
    /\ call.handle.rows = <<>>

\* C8: textSearch issues one query or two; two only when no sort was given
\* and the first query's count is below TEXT_SCORE_SORT_MAX, the second
\* being the first with the relevance sort key; with a sort given, or a
\* count at or above the threshold, one query is issued and its result is
\* what is returned.
C8_SecondQueryOnlyBelowMax ==
    call.op = "textSearch" =>
        /\ Len(call.issued) \in {1, 2}
        /\ call.issued[1] = call.args
        /\ Len(call.issued) = 2 =>
              /\ call.args.sort = NoSort
              /\ call.first.hasCount
              /\ call.first.count < TEXT_SCORE_SORT_MAX
              /\ call.issued[2] = [call.args EXCEPT !.sort = TextScoreSort]
        /\ (call.args.sort # NoSort
            \/ (call.first.hasCount /\ call.first.count >= TEXT_SCORE_SORT_MAX))
           => (Len(call.issued) = 1 /\ call.handle = call.first)

\* A search without a sort whose first count reached the threshold, so that
\* one query was issued.
C8_Witness ==
    /\ call.op = "textSearch"
    /\ call.args.sort = NoSort
    /\ call.first.hasCount
    /\ call.first.count >= TEXT_SCORE_SORT_MAX
    /\ Len(call.issued) = 1

\* The path the priority order of the planner gives.
ExpectedPath(present, admin, level, native, version) ==
    IF ~present /\ level # NoLevel /\ level > READ THEN "matchnothing"
    ELSE IF level = NoLevel THEN "raw"
    ELSE IF admin THEN "raw"
    ELSE IF native /\ version # NoVersion
            /\ (version[1] > 3 \/ (version[1] = 3 /\ version[2] >= 4))
         THEN "pipeline"
         ELSE "fallback"

\* C10: the path of findWithPermissions is the one the priority order gives
\* from (principal present, admin flag, level, parent type native, store
\* version); on the unfiltered paths the result is the raw find, every
\* matching document when offset = 0 and limit = 0, and no pass is started.
C10_PathByPriority ==
    call.op = "findWithPermissions" =>
        LET a == call.args
        IN  /\ call.handle.path =
                 ExpectedPath(a.user # NoUser, isAdmin(a.user), a.level,
                              env.native, env.version)
            /\ call.handle.path = "raw" =>
                 /\ call.handle.rows = Find(a.query, a.offset, a.limit, a.fields, a.sort)
                 /\ (a.offset = 0 /\ a.limit = 0) =>
                       RowIds(call.handle.rows)
                         = { docs[i]._id : i \in { j \in 1..Len(docs) : Matches(docs[j], a.query) } }
                 /\ \A p \in Passes : pass[p].pc = "idle"

\* A call of a user that is no administrator, with the parent type native
\* and the store at version (4, 0), that took the pipeline.
C10_Witness ==
    /\ call.op = "findWithPermissions"
    /\ call.args.user = "u1" /\ call.args.level = WRITE
    /\ env.native /\ env.version = <<4, 0>>
    /\ call.handle.path = "pipeline"
    /\ call.handle.rows # <<>>

====
